---------------------------- MODULE Spec2Model ----------------------------
(* CalendarSync: bidirectional Google Calendar <-> iCloud synchronisation.   *)
(* Model of src/sync_calendars.py (class CalendarSync, main) and             *)
(* src/sync_once.py.                                                         *)
(*                                                                           *)
(* Time is counted in whole hours.  The clock read by the program is never   *)
(* exactly on the hour: the variable now is its whole-hour part, so that     *)
(* "t >= now - x" on an hour-valued t reads "t > now - x" and                *)
(* "t <= now + x" reads "t <= now + x".  The process runs with TZ = UTC      *)
(* (the container default), so datetime.now() and datetime.now(utc) agree.   *)
(* Identifiers are sequences of naturals, so that str.startswith is a real   *)
(* prefix test.  Recurrence instances (RECURRENCE-ID) are not modelled.      *)
EXTENDS Integers, Sequences, FiniteSets, TLC

--------------------------------------------------------------------------
(* Bounds of the model *)

MaxPasses == 3      \* run_sync is invoked at most this many times
MaxFaults == 3      \* at most this many injected failures in a behaviour
MaxUserOps == 2     \* the users add or delete at most this many events
MaxIdLen == 2       \* length of the identifiers of the provenance test
MaxRecords == 2     \* records a calendar holds in the malformed-record runs

--------------------------------------------------------------------------
(* Program constants *)

Day        == 24    \* hours in timedelta(days=1)
DaysBack   == 1     \* now - timedelta(days=1)
DaysAhead  == 90    \* now + timedelta(days=90)
DaysSearch == 365   \* now -/+ timedelta(days=365) in the delete search

Null    == "<null>"       \* Python None, or a key absent from a dict
NoTitle == "No Title"     \* default of .get('summary', 'No Title')
StrNone == "None"         \* str(None)

--------------------------------------------------------------------------
(* Time values: an ISO-8601 string / a datetime / a date *)

Aware(w, o) == [kind |-> "aware", wall |-> w, off |-> o]
Naive(w)    == [kind |-> "naive", wall |-> w, off |-> 0]
DateOnly(w) == [kind |-> "date",  wall |-> w, off |-> 0]
Unbound     == [kind |-> "unbound", wall |-> 0, off |-> 0]

\* a field the record does not carry (event['start'] raises KeyError,
\* component.get('dtend') is None), and the text of a VEVENT that
\* Calendar.from_ical cannot parse; w is where the server files the record
Missing(w)  == [kind |-> "missing", wall |-> w, off |-> 0]
Garbled(w)  == [kind |-> "garbled", wall |-> w, off |-> 0]

\* the instant a time value denotes (floating values are read as UTC)
Instant(t) == t.wall - t.off

\* datetime.fromisoformat(s.replace('Z', '+00:00')): a date-only string
\* parses to a naive datetime at midnight
FromIso(t) == IF t.kind = "date" THEN Naive(t.wall) ELSE t

\* dt.astimezone(utc)
ToUtc(t) == Aware(t.wall - t.off, 0)

\* as ICloudTime, with replace(tzinfo=utc) in place of astimezone(utc)
ICloudTimeKeepWall(startStr, t) ==
    IF FromIso(startStr).kind = "aware" THEN Aware(FromIso(t).wall, 0)
    ELSE FromIso(t)

\* start_dt / end_dt written to iCloud: converted to UTC when the parsed
\* start carries a tzinfo, otherwise left as parsed
ICloudTime(startStr, t) ==
    IF FromIso(startStr).kind = "aware" THEN ToUtc(FromIso(t)) ELSE FromIso(t)

\* start_dict / end_dict sent to Google, as Google stores it: a datetime is
\* sent as dateTime with timeZone 'UTC' (a naive one is read in UTC), a date
\* as date
GoogleTime(t) == IF t.kind = "date" THEN t ELSE Aware(t.wall, t.off)

--------------------------------------------------------------------------
(* Windows *)

WinLo(n) == n - DaysBack * Day
WinHi(n) == n + DaysAhead * Day

\* the active window [now-1d, now+90d] on instants
InWindow(t, n) == WinLo(n) < Instant(t) /\ Instant(t) <= WinHi(n)

\* events().list(timeMin, timeMax) and date_search(start, end): the records
\* that overlap the range
Overlaps(r, lo, hi) == Instant(r.end) > lo /\ Instant(r.start) <= hi

\* time_min <= event_dt.isoformat() <= time_max: a comparison of strings,
\* decided by the wall-clock text 'YYYY-MM-DDTHH:MM:SS' whatever the offset
StrInWindow(t, n) == WinLo(n) < t.wall /\ t.wall <= WinHi(n)

\* start <= event_dt <= end on datetimes, start and end naive: comparing a
\* naive with an aware datetime raises TypeError, swallowed by the bare except
DtInWindow(t, n) ==
    /\ t.kind = "naive"
    /\ WinLo(n) < t.wall /\ t.wall <= WinHi(n)

--------------------------------------------------------------------------
(* Identifiers *)

NoUid    == <<>>  \* event.get('iCalUID', ''): the event has no iCalUID
AtGoogle == 9     \* the suffix "@google.com" of a native Google iCalUID
GenTag   == 7     \* first element of an identifier generated by Google

\* ical_uid.startswith(event_uid)
StartsWith(s, p) == Len(p) <= Len(s) /\ SubSeq(s, 1, Len(p)) = p

--------------------------------------------------------------------------
(* Events the users may author *)

GoogleCatalogue ==
    { [id |-> <<1>>, iCalUID |-> <<1, AtGoogle>>, summary |-> "Standup",
       start |-> Aware(14, 5), end |-> Aware(15, 5)],
      [id |-> <<2>>, iCalUID |-> NoUid, summary |-> "Review",
       start |-> DateOnly(48), end |-> DateOnly(72)],
      [id |-> <<3>>, iCalUID |-> <<3, AtGoogle>>, summary |-> Null,
       start |-> Aware(6, -5), end |-> Aware(7, -5)] }

ICloudCatalogue ==
    { [uid |-> <<1, AtGoogle>>, summary |-> Null,
       start |-> Aware(20, 0), end |-> Aware(21, 0)],
      [uid |-> <<6>>, summary |-> "Trip",
       start |-> DateOnly(48), end |-> DateOnly(72)],
      [uid |-> <<1>>, summary |-> "Standup",
       start |-> Aware(9, 0), end |-> Aware(10, 0)] }

NowValues == {0, 34}

ErrTexts == {"timeout"}
Elapsed  == {1, 2}        \* the elapsed time printed in "Sync failed after"

--------------------------------------------------------------------------
VARIABLES
    google,     \* the Google calendar: a set of event resources
    icloud,     \* the iCloud calendar: a set of VEVENTs
    state,      \* self.state
    disk,       \* the contents of STATE_FILE
    now,        \* the clock
    pc,         \* position of main / run_sync
    snapIds,    \* current_google_ids / current_icloud_ids
    res,        \* google_result and icloud_result counters
    exc,        \* the exception on its way to run_sync's except clause
    ret,        \* what run_sync returned
    notified,   \* the notification sent by the pass
    ops,        \* the creates and deletes issued by the pass
    done,       \* stages of the pass that have finished, in order
    pre,        \* both calendars and the state at the start of the pass
    faulted,    \* the failures injected in the pass
    faults,     \* number of failures injected so far
    passes,     \* number of passes started so far
    userOps,    \* number of changes made by the users so far
    quietRuns,  \* passes completed since the last change by a user
    cleanRuns,  \* ... that saw no failure, no clock change, no user change
    exitCode    \* the exit status of the process, once it has ended

vars == <<google, icloud, state, disk, now, pc, snapIds, res, exc, ret,
          notified, ops, done, pre, faulted, faults, passes, userOps,
          quietRuns, cleanRuns, exitCode>>

--------------------------------------------------------------------------
(* Dictionaries *)

EmptyDict == [k \in {} |-> Null]

Put(d, k, v) == [x \in (DOMAIN d) \cup {k} |-> IF x = k THEN v ELSE d[x]]

\* load_state when STATE_FILE does not exist
NoSync  == -1                                \* last_sync: None
NoError == [elapsed |-> 0, text |-> Null]    \* last_error: None

NoExit  == -1                                \* the process is running

EmptyState == [last_sync |-> NoSync, synced_events |-> EmptyDict,
               last_error |-> NoError]

ZeroRes == [gAdded |-> 0, gDeleted |-> 0, gErrors |-> 0,
            iAdded |-> 0, iDeleted |-> 0, iErrors |-> 0]

NoPre == [google |-> {}, icloud |-> {}, synced_events |-> EmptyDict,
          now |-> 0, last_error |-> NoError, last_sync |-> NoSync]

Min2(a, b) == IF a < b THEN a ELSE b

--------------------------------------------------------------------------
(* Construction: CalendarSync.__init__ loads the state once; both calendars  *)
(* start empty and no state file exists.                                     *)

Init ==
    /\ google = {}
    /\ icloud = {}
    /\ state = EmptyState
    /\ disk = EmptyState
    /\ now = 0
    /\ pc = "idle"
    /\ snapIds = {}
    /\ res = ZeroRes
    /\ exc = Null
    /\ ret = Null
    /\ notified = "none"
    /\ ops = {}
    /\ done = <<>>
    /\ pre = NoPre
    /\ faulted = {}
    /\ faults = 0
    /\ passes = 0
    /\ userOps = 0
    /\ quietRuns = 0
    /\ cleanRuns = 0
    /\ exitCode = NoExit

passVars == <<snapIds, res, exc, ret, notified, ops, done, pre, faulted,
              exitCode>>

--------------------------------------------------------------------------
(* The environment: the two users, the clock, the process supervisor.  It    *)
(* acts between passes.                                                      *)

UserAddGoogle ==
    /\ pc = "idle"
    /\ passes < MaxPasses
    /\ userOps < MaxUserOps
    /\ userOps' = userOps + 1
    /\ \E e \in GoogleCatalogue :
         /\ \A g \in google : g.id # e.id
         /\ google' = google \cup {e}
    /\ quietRuns' = 0
    /\ cleanRuns' = 0
    /\ UNCHANGED <<icloud, state, disk, now, pc, passVars, faults, passes>>

UserDeleteGoogle ==
    /\ pc = "idle"
    /\ passes < MaxPasses
    /\ userOps < MaxUserOps
    /\ userOps' = userOps + 1
    /\ \E e \in google : google' = google \ {e}
    /\ quietRuns' = 0
    /\ cleanRuns' = 0
    /\ UNCHANGED <<icloud, state, disk, now, pc, passVars, faults, passes>>

UserAddICloud ==
    /\ pc = "idle"
    /\ passes < MaxPasses
    /\ userOps < MaxUserOps
    /\ userOps' = userOps + 1
    /\ \E e \in ICloudCatalogue :
         /\ \A c \in icloud : c.uid # e.uid
         /\ icloud' = icloud \cup {e}
    /\ quietRuns' = 0
    /\ cleanRuns' = 0
    /\ UNCHANGED <<google, state, disk, now, pc, passVars, faults, passes>>

UserDeleteICloud ==
    /\ pc = "idle"
    /\ passes < MaxPasses
    /\ userOps < MaxUserOps
    /\ userOps' = userOps + 1
    /\ \E e \in icloud : icloud' = icloud \ {e}
    /\ quietRuns' = 0
    /\ cleanRuns' = 0
    /\ UNCHANGED <<google, state, disk, now, pc, passVars, faults, passes>>

\* a rescheduled event lands beyond the scan horizon of every pass
FarAhead == 2 * DaysAhead * Day

Later(t) == [t EXCEPT !.wall = @ + FarAhead]

\* the owner of a Google event reschedules it to a far-future date
UserMoveGoogle ==
    /\ pc = "idle"
    /\ passes < MaxPasses
    /\ userOps < MaxUserOps
    /\ userOps' = userOps + 1
    /\ \E e \in google :
         /\ e \in GoogleCatalogue
         /\ google' = (google \ {e})
                \cup {[e EXCEPT !.start = Later(@), !.end = Later(@)]}
    /\ quietRuns' = 0
    /\ cleanRuns' = 0
    /\ UNCHANGED <<icloud, state, disk, now, pc, passVars, faults, passes>>

\* the owner of an iCloud event reschedules it to a far-future date
UserMoveICloud ==
    /\ pc = "idle"
    /\ passes < MaxPasses
    /\ userOps < MaxUserOps
    /\ userOps' = userOps + 1
    /\ \E e \in icloud :
         /\ e \in ICloudCatalogue
         /\ icloud' = (icloud \ {e})
                \cup {[e EXCEPT !.start = Later(@), !.end = Later(@)]}
    /\ quietRuns' = 0
    /\ cleanRuns' = 0
    /\ UNCHANGED <<google, state, disk, now, pc, passVars, faults, passes>>

\* time.sleep(SYNC_INTERVAL), or the time between two runs of sync_once
Tick ==
    /\ pc = "idle"
    /\ passes < MaxPasses
    /\ \E n \in NowValues : n > now /\ now' = n
    /\ cleanRuns' = 0
    /\ UNCHANGED <<google, icloud, state, disk, pc, passVars, faults, passes,
                   userOps,                   quietRuns>>

\* a new process: sync_once, or the service restarted; __init__ loads the state
Restart ==
    /\ pc = "idle"
    /\ state # disk
    /\ state' = disk
    /\ UNCHANGED <<google, icloud, disk, now, pc, passVars, faults, passes,
                   userOps,                   quietRuns, cleanRuns>>

--------------------------------------------------------------------------
(* run_sync, first lines: get_google_service and get_icloud_calendar *)

\* as AfterStage, with both add loops run before either deletion
AfterStageAddsFirst(stage) ==
    CASE stage = "propG2I" -> "i2g_add"
      [] stage = "propI2G" -> "g2i_del"
      [] stage = "delG2I"  -> "i2g_del"
      [] stage = "delI2G"  -> "finish"

\* where control goes when a stage has finished: sync_google_to_icloud runs
\* its add loop and then its deletions, then run_sync calls
\* sync_icloud_to_google, which does the same
AfterStage(stage) ==
    CASE stage = "propG2I" -> "g2i_del"
      [] stage = "delG2I"  -> "i2g_add"
      [] stage = "propI2G" -> "i2g_del"
      [] stage = "delI2G"  -> "finish"

SystemExit == "SystemExit"
OSError    == "OSError"

Raise(text) ==
    /\ pc' = "except"
    /\ exc' = text

GetServices ==
    /\ pc = "idle"
    /\ passes < MaxPasses
    /\ passes' = passes + 1
    /\ pre' = [google |-> google, icloud |-> icloud,
               synced_events |-> state.synced_events, now |-> now,
               last_error |-> state.last_error,
               last_sync |-> state.last_sync]
    /\ snapIds' = {}
    /\ res' = ZeroRes
    /\ ret' = Null
    /\ notified' = "none"
    /\ ops' = {}
    /\ done' = <<>>
    /\ \/ /\ pc' = "g2i_add"
          /\ exc' = Null
          /\ faulted' = {}
          /\ UNCHANGED faults
       \/ /\ faults < MaxFaults
          /\ \E who \in {"google_auth", "icloud_connect"}, t \in ErrTexts :
               /\ Raise(t)
               /\ faulted' = {who}
          /\ faults' = faults + 1
       \* no valid token and no CREDENTIALS_FILE: sys.exit(1) at line 127;
       \* SystemExit is not an Exception and passes the except of run_sync
       \/ /\ faults < MaxFaults
          /\ pc' = "crashed"
          /\ exc' = SystemExit
          /\ faulted' = {"google_credentials"}
          /\ faults' = faults + 1
    /\ UNCHANGED <<google, icloud, state, disk, now, userOps, quietRuns,
                   cleanRuns>>
    /\ UNCHANGED exitCode

--------------------------------------------------------------------------
(* sync_google_to_icloud *)

Entry(title, source, start) ==
    [title |-> title, source |-> source, start |-> start,
     sync_failed |-> FALSE, error |-> Null]

FailedEntry(title, source, start, e) ==
    [title |-> title, source |-> source, start |-> start,
     sync_failed |-> TRUE, error |-> e]

Op(kind, side, key, ok, stage, after) ==
    [op |-> kind, at |-> side, key |-> key, ok |-> ok, stage |-> stage,
     after |-> after]

\* events().list(timeMin, timeMax, singleEvents=True).get('items', [])
GoogleSnapshot(g, n) == {e \in g : Overlaps(e, WinLo(n), WinHi(n))}

\* date_search(start=now-1d, end=now+90d, expand=True)
ICloudSnapshot(c, n) == {e \in c : Overlaps(e, WinLo(n), WinHi(n))}

\* orderBy='startTime'
RECURSIVE SortByStart(_)
SortByStart(S) ==
    IF S = {} THEN <<>>
    ELSE LET first == CHOOSE e \in S :
                        \A o \in S : Instant(e.start) <= Instant(o.start)
         IN <<first>> \o SortByStart(S \ {first})

\* the provenance test: an event whose iCalUID is set and does not start
\* with its own id originated from iCloud
Native(ev) == ~(ev.iCalUID # NoUid /\ ~StartsWith(ev.iCalUID, ev.id))

\* the VEVENT built from a Google event
ICloudCopy(ev) ==
    [uid |-> ev.id,
     summary |-> IF ev.summary = Null THEN NoTitle ELSE ev.summary,
     start |-> ICloudTime(ev.start, ev.start),
     end |-> ICloudTime(ev.start, ev.end)]

\* as G2IAddEvent, without "error_count += 1" in the except clause
G2IAddEventNoCount(ev, acc, existing, failKeys, after) ==
    LET uid == ev.id IN
    IF acc.broken THEN acc
    ELSE IF ~Native(ev) THEN acc
    ELSE IF uid \in DOMAIN acc.se THEN acc
    ELSE IF ev.start.kind = "missing" THEN [acc EXCEPT !.broken = TRUE]
    ELSE IF uid \in existing THEN
        [acc EXCEPT !.se = Put(@, uid,
            Entry(ev.summary,
                  IF ev.iCalUID # NoUid THEN "icloud" ELSE "google",
                  ev.start))]
    ELSE IF ev.end.kind = "missing" THEN [acc EXCEPT !.broken = TRUE]
    ELSE IF uid \in failKeys THEN
        [acc EXCEPT !.se = Put(@, uid,
                        FailedEntry(ev.summary, "google", ev.start,
                                    CHOOSE t \in ErrTexts : TRUE)),
                    !.ops = @ \cup {Op("create", "icloud", uid, FALSE,
                                       "propG2I", after)}]
    ELSE
        [acc EXCEPT !.se = Put(@, uid, Entry(ev.summary, "google", ev.start)),
                    !.cal = @ \cup {ICloudCopy(ev)},
                    !.added = @ + 1,
                    !.ops = @ \cup {Op("create", "icloud", uid, TRUE,
                                       "propG2I", after)}]

\* one iteration of "for event in events".  event['start'] (lines 255,
\* 273) and event['end'] (line 274) are read outside any try: a record
\* without the field raises KeyError out of the loop.
G2IAddEvent(ev, acc, existing, failKeys, after) ==
    LET uid == ev.id IN
    IF acc.broken THEN acc
    ELSE IF ~Native(ev) THEN acc
    ELSE IF uid \in DOMAIN acc.se THEN acc
    ELSE IF ev.start.kind = "missing" THEN [acc EXCEPT !.broken = TRUE]
    ELSE IF uid \in existing THEN
        [acc EXCEPT !.se = Put(@, uid,
            Entry(ev.summary,
                  IF ev.iCalUID # NoUid THEN "icloud" ELSE "google",
                  ev.start))]
    ELSE IF ev.end.kind = "missing" THEN [acc EXCEPT !.broken = TRUE]
    ELSE IF uid \in failKeys THEN
        [acc EXCEPT !.se = Put(@, uid,
                        FailedEntry(ev.summary, "google", ev.start,
                                    CHOOSE t \in ErrTexts : TRUE)),
                    !.errors = @ + 1,
                    !.ops = @ \cup {Op("create", "icloud", uid, FALSE,
                                       "propG2I", after)}]
    ELSE
        [acc EXCEPT !.se = Put(@, uid, Entry(ev.summary, "google", ev.start)),
                    !.cal = @ \cup {ICloudCopy(ev)},
                    !.added = @ + 1,
                    !.ops = @ \cup {Op("create", "icloud", uid, TRUE,
                                       "propG2I", after)}]

RECURSIVE G2IAddLoop(_, _, _, _, _)
G2IAddLoop(events, acc, existing, failKeys, after) ==
    IF events = <<>> THEN acc
    ELSE G2IAddLoop(Tail(events),
                    G2IAddEvent(Head(events), acc, existing, failKeys, after),
                    existing, failKeys, after)

\* the Google events for which the loop reaches save_event
G2IPending(events, se, existing) ==
    {e.id : e \in {x \in events : /\ Native(x)
                                  /\ x.id \notin DOMAIN se
                                  /\ x.id \notin existing
                                  /\ x.start.kind # "missing"
                                  /\ x.end.kind # "missing"}}

KeyError == "KeyError"

\* the VEVENTs that Calendar.from_ical parses; the others are passed over
\* by the try/except around it
Parsed(c) == {e \in c : e.start.kind # "garbled"}

\* lines 170-324: the snapshots and the "Add new events" loop
PropagateGoogleToICloud ==
    /\ pc = "g2i_add"
    /\ \/ /\ faults < MaxFaults
          /\ \E t \in ErrTexts : Raise(t)
          /\ faults' = faults + 1
          /\ faulted' = faulted \cup {"google_list"}
          /\ UNCHANGED <<google, icloud, state, snapIds, res, ops, done>>
       \/ \E dupFail \in BOOLEAN :
            LET events == GoogleSnapshot(google, now)
                existing == IF dupFail THEN {}
                            ELSE {c.uid :
                                    c \in Parsed(ICloudSnapshot(icloud, now))}
            IN \E failKeys \in SUBSET G2IPending(events, state.synced_events,
                                                 existing) :
                 LET nf == Cardinality(failKeys) + (IF dupFail THEN 1 ELSE 0)
                     acc == G2IAddLoop(SortByStart(events),
                                [se |-> state.synced_events, cal |-> icloud,
                                 added |-> 0, errors |-> 0, ops |-> ops,
                                 broken |-> FALSE],
                                existing, failKeys, done)
                 IN /\ faults + nf <= MaxFaults
                    /\ faults' = faults + nf
                    /\ faulted' = faulted
                          \cup (IF dupFail THEN {"icloud_dup_fetch"} ELSE {})
                          \cup (IF failKeys # {} THEN {"icloud_create"} ELSE {})
                    /\ state' = [state EXCEPT !.synced_events = acc.se]
                    /\ icloud' = acc.cal
                    /\ res' = [res EXCEPT !.gAdded = acc.added,
                                          !.gErrors = acc.errors]
                    /\ ops' = acc.ops
                    /\ snapIds' = {e.id : e \in events}
                    /\ IF acc.broken
                       THEN /\ Raise(KeyError)
                            /\ UNCHANGED done
                       ELSE /\ pc' = AfterStage("propG2I")
                            /\ done' = Append(done, "propG2I")
                            /\ UNCHANGED exc
                    /\ UNCHANGED google
    /\ UNCHANGED <<disk, now, ret, notified, pre, passes, userOps, quietRuns,
                   cleanRuns>>
    /\ UNCHANGED exitCode

\* as G2IToDelete, without the test "event_id not in current_google_ids"
G2IToDeleteAll(se, ids, n) ==
    {k \in DOMAIN se : /\ se[k].source = "google"
                       /\ StrInWindow(FromIso(se[k].start), n)}

\* events_to_delete of sync_google_to_icloud
G2IToDelete(se, ids, n) ==
    {k \in DOMAIN se : /\ se[k].source = "google"
                       /\ StrInWindow(FromIso(se[k].start), n)
                       /\ k \notin ids}

\* date_search(now-365d, now+365d), kept when str(component.get('uid'))
\* == event_id
ICloudMatches(c, k, n) ==
    {e \in Parsed(c) :
        /\ Overlaps(e, n - DaysSearch * Day, n + DaysSearch * Day)
        /\ e.uid = k}

\* lines 326-383: deletion detection and the deletes at iCloud.  A failing
\* date_search is caught per key, a failing delete() by the bare except:
\* neither counts an error and neither removes the entry.
DeleteFromICloud ==
    /\ pc = "g2i_del"
    /\ LET toDelete == G2IToDelete(state.synced_events, snapIds, now)
       IN \E searchFail \in SUBSET toDelete :
          \E delFail \in SUBSET {k \in toDelete \ searchFail :
                                    ICloudMatches(icloud, k, now) # {}} :
            LET hit == {k \in toDelete \ (searchFail \cup delFail) :
                           ICloudMatches(icloud, k, now) # {}}
                gone == UNION {ICloudMatches(icloud, k, now) : k \in hit}
                nf == Cardinality(searchFail) + Cardinality(delFail)
            IN /\ faults + nf <= MaxFaults
               /\ faults' = faults + nf
               /\ faulted' = faulted
                     \cup (IF searchFail # {} THEN {"icloud_search"} ELSE {})
                     \cup (IF delFail # {} THEN {"icloud_delete"} ELSE {})
               /\ icloud' = icloud \ gone
               /\ state' = [state EXCEPT !.synced_events =
                               [k \in (DOMAIN @) \ hit |-> @[k]]]
               /\ res' = [res EXCEPT !.gDeleted = Cardinality(gone)]
               /\ ops' = ops
                     \cup {Op("delete", "icloud", k, TRUE, "delG2I", done) :
                             k \in hit}
                     \cup {Op("delete", "icloud", k, FALSE, "delG2I", done) :
                             k \in delFail}
    /\ done' = Append(done, "delG2I")
    /\ pc' = AfterStage("delG2I")
    /\ UNCHANGED <<google, disk, now, snapIds, exc, ret, notified, pre, passes,
                   userOps,                   quietRuns, cleanRuns>>
    /\ UNCHANGED exitCode

--------------------------------------------------------------------------
(* sync_icloud_to_google *)

\* the orders in which date_search may return a set of events
Orders(S) ==
    {q \in [1..Cardinality(S) -> S] :
        \A i, j \in 1..Cardinality(S) : i # j => q[i] # q[j]}

\* the id Google gives to an inserted event: an identifier of its own
\* making, unused in the calendar and unrelated to any iCalUID
RECURSIVE FreshFrom(_, _)
FreshFrom(g, n) ==
    IF \E e \in g : e.id = <<GenTag, n>> THEN FreshFrom(g, n + 1)
    ELSE <<GenTag, n>>

GenId(g) == FreshFrom(g, 1)

\* existing_google_events: keyed by g_event.get('iCalUID', g_event['id'])
GoogleKey(g) == IF g.iCalUID # NoUid THEN g.iCalUID ELSE g.id

\* the body of events().insert, as Google stores it
GoogleCopy(c, g) ==
    [id |-> GenId(g),
     iCalUID |-> c.uid,
     summary |-> IF c.summary = Null THEN NoTitle ELSE c.summary,
     start |-> GoogleTime(c.start),
     end |-> GoogleTime(c.end)]

\* str(component.get('summary'))
StrTitle(c) == IF c.summary = Null THEN StrNone ELSE c.summary

\* as I2GAddEvent, without the test "event_id in self.state['synced_events']"
I2GAddEventRetry(c, acc, existing, failKeys, after) ==
    LET id == c.uid
        acc1 == [acc EXCEPT !.ids = @ \cup {id}]
    IN
    IF acc.raised \/ acc.broken THEN acc
    ELSE IF c.start.kind = "garbled" THEN acc
    ELSE IF c.start.kind = "missing" THEN [acc1 EXCEPT !.broken = TRUE]
    ELSE IF id \in existing THEN
        [acc1 EXCEPT !.event_start = c.start,
                     !.se = Put(@, id, Entry(StrTitle(c), "icloud", c.start))]
    ELSE IF c.end.kind = "missing" THEN [acc1 EXCEPT !.broken = TRUE]
    ELSE IF id \in failKeys THEN
        IF acc.event_start = Unbound
        THEN [acc1 EXCEPT !.raised = TRUE,
                          !.ops = @ \cup {Op("create", "google", id, FALSE,
                                             "propI2G", after)}]
        ELSE [acc1 EXCEPT !.se = Put(@, id,
                              FailedEntry(StrTitle(c), "icloud",
                                          acc.event_start,
                                          CHOOSE t \in ErrTexts : TRUE)),
                          !.errors = @ + 1,
                          !.ops = @ \cup {Op("create", "google", id, FALSE,
                                             "propI2G", after)}]
    ELSE
        [acc1 EXCEPT !.cal = @ \cup {GoogleCopy(c, acc.cal)},
                     !.event_start = c.start,
                     !.se = Put(@, id, Entry(StrTitle(c), "icloud", c.start)),
                     !.added = @ + 1,
                     !.ops = @ \cup {Op("create", "google", id, TRUE,
                                        "propI2G", after)}]

\* one iteration of "for event in events" / "for component in ical.walk()".
\* event_start is a local of the function: it is assigned on the
\* already-exists path and after a successful insert, and read in the except
\* clause of a failed insert.  A VEVENT that from_ical cannot parse is passed
\* over (lines 427-431); component.get('dtstart').dt (lines 452, 463) and
\* component.get('dtend').dt (line 464) are read outside any try, and raise
\* AttributeError out of the loop when the property is absent.
I2GAddEvent(c, acc, existing, failKeys, after) ==
    LET id == c.uid
        acc1 == [acc EXCEPT !.ids = @ \cup {id}]
    IN
    IF acc.raised \/ acc.broken THEN acc
    ELSE IF c.start.kind = "garbled" THEN acc
    ELSE IF id \in DOMAIN acc.se THEN acc1
    ELSE IF c.start.kind = "missing" THEN [acc1 EXCEPT !.broken = TRUE]
    ELSE IF id \in existing THEN
        [acc1 EXCEPT !.event_start = c.start,
                     !.se = Put(@, id, Entry(StrTitle(c), "icloud", c.start))]
    ELSE IF c.end.kind = "missing" THEN [acc1 EXCEPT !.broken = TRUE]
    ELSE IF id \in failKeys THEN
        IF acc.event_start = Unbound
        THEN [acc1 EXCEPT !.raised = TRUE,
                          !.ops = @ \cup {Op("create", "google", id, FALSE,
                                             "propI2G", after)}]
        ELSE [acc1 EXCEPT !.se = Put(@, id,
                              FailedEntry(StrTitle(c), "icloud",
                                          acc.event_start,
                                          CHOOSE t \in ErrTexts : TRUE)),
                          !.errors = @ + 1,
                          !.ops = @ \cup {Op("create", "google", id, FALSE,
                                             "propI2G", after)}]
    ELSE
        [acc1 EXCEPT !.cal = @ \cup {GoogleCopy(c, acc.cal)},
                     !.event_start = c.start,
                     !.se = Put(@, id, Entry(StrTitle(c), "icloud", c.start)),
                     !.added = @ + 1,
                     !.ops = @ \cup {Op("create", "google", id, TRUE,
                                        "propI2G", after)}]

RECURSIVE I2GAddLoop(_, _, _, _, _)
I2GAddLoop(events, acc, existing, failKeys, after) ==
    IF events = <<>> THEN acc
    ELSE I2GAddLoop(Tail(events),
                    I2GAddEvent(Head(events), acc, existing, failKeys, after),
                    existing, failKeys, after)

\* the iCloud events for which the loop reaches events().insert
I2GPending(events, se, existing) ==
    {e.uid : e \in {x \in events : /\ x.uid \notin DOMAIN se
                                   /\ x.uid \notin existing
                                   /\ x.start.kind \notin {"garbled", "missing"}
                                   /\ x.end.kind # "missing"}}

AttributeError == "AttributeError"

UnboundLocalError == "UnboundLocalError"

\* lines 389-527: the snapshots and the "Add new events" loop
PropagateICloudToGoogle ==
    /\ pc = "i2g_add"
    /\ \/ /\ faults < MaxFaults
          /\ \E t \in ErrTexts : Raise(t)
          /\ faults' = faults + 1
          /\ faulted' = faulted \cup {"icloud_list"}
          /\ UNCHANGED <<google, icloud, state, snapIds, res, ops, done>>
       \/ \E dupFail \in BOOLEAN :
            LET events == ICloudSnapshot(icloud, now)
                existing == IF dupFail THEN {}
                            ELSE {GoogleKey(g) :
                                    g \in GoogleSnapshot(google, now)}
            IN \E failKeys \in SUBSET I2GPending(events, state.synced_events,
                                                 existing) :
               \E order \in Orders(events) :
                 LET nf == Cardinality(failKeys) + (IF dupFail THEN 1 ELSE 0)
                     acc == I2GAddLoop(order,
                                [se |-> state.synced_events, cal |-> google,
                                 added |-> 0, errors |-> 0, ops |-> ops,
                                 ids |-> {}, event_start |-> Unbound,
                                 raised |-> FALSE, broken |-> FALSE],
                                existing, failKeys, done)
                 IN /\ faults + nf <= MaxFaults
                    /\ faults' = faults + nf
                    /\ faulted' = faulted
                          \cup (IF dupFail THEN {"google_dup_fetch"} ELSE {})
                          \cup (IF failKeys # {} THEN {"google_create"} ELSE {})
                    /\ state' = [state EXCEPT !.synced_events = acc.se]
                    /\ google' = acc.cal
                    /\ res' = [res EXCEPT !.iAdded = acc.added,
                                          !.iErrors = acc.errors]
                    /\ ops' = acc.ops
                    /\ snapIds' = acc.ids
                    /\ IF acc.raised \/ acc.broken
                       THEN /\ Raise(IF acc.raised THEN UnboundLocalError
                                     ELSE AttributeError)
                            /\ UNCHANGED done
                       ELSE /\ pc' = AfterStage("propI2G")
                            /\ done' = Append(done, "propI2G")
                            /\ UNCHANGED exc
                    /\ UNCHANGED icloud
    /\ UNCHANGED <<disk, now, ret, notified, pre, passes, userOps, quietRuns,
                   cleanRuns>>
    /\ UNCHANGED exitCode

\* events_to_delete of sync_icloud_to_google
I2GToDelete(se, ids, n) ==
    {k \in DOMAIN se : /\ se[k].source = "icloud"
                       /\ DtInWindow(FromIso(se[k].start), n)
                       /\ k \notin ids}

\* events().delete(eventId=event_id): the event whose id is event_id
GoogleTarget(g, k) == {e \in g : e.id = k}

\* lines 529-579: deletion detection and the deletes at Google.  Whatever
\* delete raises (404 included), the entry is removed and nothing is counted.
DeleteFromGoogle ==
    /\ pc = "i2g_del"
    /\ LET toDelete == I2GToDelete(state.synced_events, snapIds, now)
       IN \E delFail \in SUBSET {k \in toDelete :
                                    GoogleTarget(google, k) # {}} :
            LET hit == {k \in toDelete \ delFail : GoogleTarget(google, k) # {}}
                gone == UNION {GoogleTarget(google, k) : k \in hit}
                nf == Cardinality(delFail)
            IN /\ faults + nf <= MaxFaults
               /\ faults' = faults + nf
               /\ faulted' = faulted
                     \cup (IF delFail # {} THEN {"google_delete"} ELSE {})
               /\ google' = google \ gone
               /\ state' = [state EXCEPT !.synced_events =
                               [k \in (DOMAIN @) \ toDelete |-> @[k]]]
               /\ res' = [res EXCEPT !.iDeleted = Cardinality(hit)]
               /\ ops' = ops
                     \cup {Op("delete", "google", k, k \in hit, "delI2G",
                              done) : k \in toDelete}
    /\ done' = Append(done, "delI2G")
    /\ pc' = AfterStage("delI2G")
    /\ UNCHANGED <<icloud, disk, now, snapIds, exc, ret, notified, pre, passes,
                   userOps,                   quietRuns, cleanRuns>>
    /\ UNCHANGED exitCode

--------------------------------------------------------------------------
(* run_sync, after both directions *)

\* lines 595-667.  save_state at line 599 is inside the try of run_sync:
\* when the file cannot be written the exception goes to the except clause.
Finish ==
    /\ pc = "finish"
    /\ state' = [state EXCEPT !.last_sync = now, !.last_error = NoError]
    /\ \/ /\ disk' = state'
          /\ notified' = IF \/ res.gAdded + res.iAdded > 0
                            \/ res.gDeleted + res.iDeleted > 0
                            \/ res.gErrors + res.iErrors > 0
                         THEN "summary" ELSE "none"
          /\ ret' = TRUE
          /\ pc' = "returned"
          /\ quietRuns' = Min2(quietRuns + 1, 2)
          /\ cleanRuns' = IF faulted = {} THEN Min2(cleanRuns + 1, 2) ELSE 0
          /\ UNCHANGED <<exc, faulted, faults>>
       \/ /\ faults < MaxFaults
          /\ faults' = faults + 1
          /\ faulted' = faulted \cup {"state_write"}
          /\ Raise(OSError)
          /\ UNCHANGED <<disk, notified, ret, quietRuns, cleanRuns>>
    /\ UNCHANGED <<google, icloud, now, snapIds, res, ops, done, pre,
                   passes, userOps>>
    /\ UNCHANGED exitCode

\* lines 669-690.  save_state at line 688 is inside the except clause: when
\* the file cannot be written the exception leaves run_sync, and main.
HandleError ==
    /\ pc = "except"
    /\ \E el \in Elapsed :
         LET error_msg == [elapsed |-> el, text |-> exc]
         IN IF state.last_error # error_msg
            THEN /\ notified' = "error"
                 /\ state' = [state EXCEPT !.last_error = error_msg]
                 /\ \/ /\ disk' = state'
                       /\ ret' = FALSE
                       /\ pc' = "returned"
                       /\ UNCHANGED <<exc, faulted, faults>>
                    \/ /\ faults < MaxFaults
                       /\ faults' = faults + 1
                       /\ faulted' = faulted \cup {"state_write"}
                       /\ exc' = OSError
                       /\ pc' = "crashed"
                       /\ UNCHANGED <<disk, ret>>
            ELSE /\ ret' = FALSE
                 /\ pc' = "returned"
                 /\ UNCHANGED <<notified, state, disk, exc, faulted, faults>>
    /\ quietRuns' = Min2(quietRuns + 1, 2)
    /\ cleanRuns' = 0
    /\ UNCHANGED <<google, icloud, now, snapIds, res, ops, done, pre,
                   passes, userOps>>
    /\ UNCHANGED exitCode

\* main: the locals of run_sync are gone, the loop sleeps
MainSleep ==
    /\ pc = "returned"
    /\ pc' = "idle"
    /\ snapIds' = {}
    /\ res' = ZeroRes
    /\ exc' = Null
    /\ ret' = Null
    /\ notified' = "none"
    /\ ops' = {}
    /\ done' = <<>>
    /\ pre' = NoPre
    /\ faulted' = {}
    /\ UNCHANGED <<google, icloud, state, disk, now, faults, passes, userOps,
                   quietRuns,                   cleanRuns>>
    /\ UNCHANGED exitCode

--------------------------------------------------------------------------
Next ==
    \/ UserAddGoogle
    \/ UserDeleteGoogle
    \/ UserAddICloud
    \/ UserDeleteICloud
    \/ UserMoveGoogle
    \/ UserMoveICloud
    \/ Tick
    \/ Restart
    \/ GetServices
    \/ PropagateGoogleToICloud
    \/ DeleteFromICloud
    \/ PropagateICloudToGoogle
    \/ DeleteFromGoogle
    \/ Finish
    \/ HandleError
    \/ MainSleep

Spec == Init /\ [][Next]_vars

TypeOK ==
    /\ pc \in {"idle", "g2i_add", "g2i_del", "i2g_add", "i2g_del", "finish",
               "except", "returned", "crashed", "exited"}
    /\ \A k \in DOMAIN state.synced_events :
         state.synced_events[k].source \in {"google", "icloud"}
    /\ faults <= MaxFaults
    /\ passes <= MaxPasses

--------------------------------------------------------------------------
(* Properties *)

SE == state.synced_events

IsPrefix(p, q) == Len(p) <= Len(q) /\ SubSeq(q, 1, Len(p)) = p

\* the pass has returned True and nothing failed in it
CleanPassDone == pc = "returned" /\ ret = TRUE /\ faulted = {}

\* C1 (round trip): from an empty sync state, one native Google event with a
\* title, inside the active window, and an empty iCloud: after a pass without
\* failure iCloud holds exactly one record, with the event's key, title, start
\* and end, and the entry of the key has source 'google', the title, the
\* start and no sync_failed flag.  Symmetrically for one iCloud event, whose
\* copy at Google carries the key as iCalUID, with source 'icloud'.
RoundTripG2I ==
    \A g \in pre.google :
        ( /\ pre.google = {g} /\ pre.icloud = {}
          /\ Native(g) /\ g.summary # Null /\ InWindow(g.start, pre.now) )
        => /\ \E c \in icloud :
                /\ icloud = {c}
                /\ c.uid = g.id
                /\ c.summary = g.summary
                /\ Instant(c.start) = Instant(g.start)
                /\ Instant(c.end) = Instant(g.end)
           /\ g.id \in DOMAIN SE
           /\ SE[g.id].source = "google"
           /\ SE[g.id].title = g.summary
           /\ SE[g.id].start = g.start
           /\ ~SE[g.id].sync_failed

RoundTripI2G ==
    \A c \in pre.icloud :
        ( /\ pre.icloud = {c} /\ pre.google = {}
          /\ c.summary # Null /\ InWindow(c.start, pre.now) )
        => /\ \E g \in google :
                /\ google = {g}
                /\ g.iCalUID = c.uid
                /\ g.summary = c.summary
                /\ Instant(g.start) = Instant(c.start)
                /\ Instant(g.end) = Instant(c.end)
           /\ c.uid \in DOMAIN SE
           /\ SE[c.uid].source = "icloud"
           /\ SE[c.uid].title = c.summary
           /\ SE[c.uid].start = c.start
           /\ ~SE[c.uid].sync_failed

NothingReported ==
    /\ res.gAdded = 0 /\ res.iAdded = 0
    /\ res.gDeleted = 0 /\ res.iDeleted = 0

HeldAtICloud == {c.uid : c \in pre.icloud}
HeldAtGoogle == {GoogleKey(g) : g \in pre.google}

\* the native, untracked records of the source snapshot of each direction
UntrackedAtGoogle ==
    {e \in GoogleSnapshot(pre.google, pre.now) :
        Native(e) /\ e.id \notin DOMAIN pre.synced_events}

\* C3 (dedup on pre-existing records): when the destination already holds a
\* record with the key of a native, untracked source record, the pass
\* records an entry for the key and issues no create for it, in both
\* directions and on every path of the pass
DedupOnEveryPath ==
    /\ \A o \in ops :
         o.op = "create" =>
            /\ o.at = "icloud" => o.key \notin HeldAtICloud
            /\ o.at = "google" => o.key \notin HeldAtGoogle
    /\ pc = "g2i_del" =>
         \A e \in UntrackedAtGoogle :
            e.id \in HeldAtICloud => e.id \in DOMAIN SE

\* the entries that the Google-to-iCloud deletion detection of the pass is
\* claimed to select: tracked before the pass with source 'google', start
\* inside the active window, key absent from the Google snapshot
G2IGone ==
    {k \in DOMAIN pre.synced_events :
        /\ pre.synced_events[k].source = "google"
        /\ InWindow(pre.synced_events[k].start, pre.now)
        /\ k \notin snapIds}

\* C4 (windowed deletion, Google to iCloud): when the deletes of the pass do
\* not fail, each such entry that has an iCloud record within now +/- 365
\* days loses that record and is removed, and the deletion is counted
WindowedDeletionG2I ==
    (pc = "i2g_add" /\ faulted \cap {"icloud_search", "icloud_delete"} = {})
    => \A k \in G2IGone :
          ICloudMatches(pre.icloud, k, pre.now) # {}
          => /\ ICloudMatches(icloud, k, pre.now) = {}
             /\ k \notin DOMAIN SE
             /\ res.gDeleted >= 1

\* as G2IGone, for source 'icloud' and the iCloud snapshot
I2GGone ==
    {k \in DOMAIN pre.synced_events :
        /\ pre.synced_events[k].source = "icloud"
        /\ InWindow(pre.synced_events[k].start, pre.now)
        /\ k \notin snapIds}

\* C5 (windowed deletion, iCloud to Google): when the deletes of the pass do
\* not fail, each such entry whose copy at Google (the record carrying the
\* key as iCalUID) exists is removed, and no Google record for the key
\* remains
WindowedDeletionI2G ==
    (pc = "finish" /\ "google_delete" \notin faulted)
    => \A k \in I2GGone :
          (\E g \in pre.google : g.iCalUID = k)
          => /\ k \notin DOMAIN SE
             /\ \A g \in google : g.iCalUID # k

\* C6 (out-of-window entries are untouched): an entry whose start lies
\* outside the active window is left as it was by the pass, and no delete is
\* issued at the other side for its key
OutOfWindowUntouched ==
    pc \notin {"idle", "except"} =>
      \A k \in DOMAIN pre.synced_events :
         ~InWindow(pre.synced_events[k].start, pre.now)
         => /\ k \in DOMAIN SE
            /\ SE[k] = pre.synced_events[k]
            /\ \A o \in ops : ~(o.op = "delete" /\ o.key = k)

CreatesAt(side, ok) ==
    {o \in ops : o.op = "create" /\ o.at = side /\ o.ok = ok}

\* C7 (failure isolation, Google to iCloud): whichever creates fail, every
\* untracked native Google event of the snapshot is processed, each one that
\* iCloud does not hold is the target of a create, each create that did not
\* fail left its record at iCloud and a clean entry, each failed create left
\* an entry with sync_failed and an error text, errors counts the failed
\* creates, and a pass in which only creates at iCloud failed returns True
\* with the state saved
FailureIsolationG2I ==
    /\ pc = "g2i_del" =>
         /\ \A e \in UntrackedAtGoogle : e.id \in DOMAIN SE
         /\ \A e \in UntrackedAtGoogle :
               e.id \notin HeldAtICloud
               => \E o \in ops : /\ o.op = "create" /\ o.at = "icloud"
                                 /\ o.key = e.id
         /\ \A o \in CreatesAt("icloud", TRUE) :
               /\ \E c \in icloud : c.uid = o.key
               /\ ~SE[o.key].sync_failed
         /\ \A o \in CreatesAt("icloud", FALSE) :
               /\ o.key \in DOMAIN SE
               /\ SE[o.key].sync_failed
               /\ SE[o.key].error \in ErrTexts
               /\ SE[o.key].source = "google"
         /\ res.gErrors = Cardinality(CreatesAt("icloud", FALSE))
    /\ (pc = "returned" /\ faulted = {"icloud_create"}) =>
         /\ ret = TRUE
         /\ disk = state
         /\ res.gErrors = Cardinality(CreatesAt("icloud", FALSE))

\* a pass has returned in which one create at iCloud failed and another
\* succeeded
FailureIsolationG2IWitness ==
    /\ pc = "returned"
    /\ faulted = {"icloud_create"}
    /\ CreatesAt("icloud", TRUE) # {}
    /\ CreatesAt("icloud", FALSE) # {}

\* C8 (failure isolation, iCloud to Google): a failed create at Google does
\* not abort the pass; the key gets an entry with source 'icloud',
\* sync_failed, an error text and the start of that same event, and errors
\* counts it, wherever the event stands in the snapshot
FailureIsolationI2G ==
    /\ \A o \in CreatesAt("google", FALSE) :
         /\ exc # UnboundLocalError
         /\ o.key \in DOMAIN SE
         /\ SE[o.key].source = "icloud"
         /\ SE[o.key].sync_failed
         /\ SE[o.key].error \in ErrTexts
         /\ \E c \in pre.icloud : c.uid = o.key /\ SE[o.key].start = c.start
    /\ pc = "i2g_del" =>
         res.iErrors = Cardinality(CreatesAt("google", FALSE))
    /\ (pc = "returned" /\ faulted = {"google_create"}) => ret = TRUE

\* the entries the deletion detection of each direction selects: no entry
\* that a pass adds is among them
G2ISelected == G2IToDelete(pre.synced_events, snapIds, pre.now)
I2GSelected == I2GToDelete(pre.synced_events, snapIds, pre.now)

\* C9 (delete target not found is success): an entry that deletion detection
\* selects and for which the other side holds no record is removed in that
\* pass, and no error is counted, in either direction
NotFoundIsSuccess ==
    /\ (pc = "i2g_add" /\ "icloud_search" \notin faulted) =>
         \A k \in G2ISelected :
            ICloudMatches(pre.icloud, k, pre.now) = {}
            => k \notin DOMAIN SE /\ res.gErrors = 0
    /\ pc = "finish" =>
         \A k \in I2GSelected :
            GoogleTarget(pre.google, k) = {}
            => k \notin DOMAIN SE /\ res.iErrors = 0

StagesAsClaimed == <<"propG2I", "propI2G", "delG2I", "delI2G">>

StagesAsRun == <<"propG2I", "delG2I", "propI2G", "delI2G">>

\* the stages that come before a stage in an order
Before(order, stage) ==
    SubSeq(order, 1, (CHOOSE i \in 1..Len(order) : order[i] = stage) - 1)

PassLevelFaults ==
    {"google_auth", "icloud_connect", "google_list", "icloud_list",
     "icloud_dup_fetch", "google_dup_fetch"}

\* the stages that have not issued anything yet when a failure happens
StagesFrom(fault) ==
    IF fault \in {"icloud_list", "google_dup_fetch"}
    THEN {"propI2G", "delI2G"}
    ELSE {"propG2I", "delG2I", "propI2G", "delI2G"}

\* C11 (a pass-level failure aborts the pass): when a connection, an
\* authentication or a snapshot fetch of Google or iCloud fails in a pass, no
\* create and no delete is issued in the rest of the pass, run_sync returns
\* False and last_error holds the failure text
PassFailureAborts ==
    \A f \in faulted \cap PassLevelFaults :
        /\ \A o \in ops : o.stage \notin StagesFrom(f)
        /\ pc # "finish"
        /\ pc = "returned" =>
             /\ ret = FALSE
             /\ state.last_error.text \in ErrTexts

\* C12 (error-notification suppression): a failed pass sends an error
\* notification exactly when its error text differs from the last_error the
\* previous pass recorded, so that of consecutive passes failing for the same
\* cause only the first one notifies
SuppressDuplicateError ==
    (pc = "returned" /\ ret = FALSE)
        => (notified = "error" <=> pre.last_error.text # exc)

\* C13 (failed entries are never silently dropped): an entry with
\* sync_failed stays in synced_events as it is, flag and error included, over
\* every step other than a deletion-detection stage
FailedEntriesKept ==
    [][ \A k \in DOMAIN SE :
          SE[k].sync_failed =>
             \/ pc \in {"g2i_del", "i2g_del"}
             \/ k \in DOMAIN SE' /\ SE'[k] = SE[k] ]_vars

\* C14 (no automatic retry): a propagation stage issues no create for a key
\* that synced_events holds when the stage examines it, whether the entry is
\* clean, deduplicated or sync_failed; a failed create is not attempted again
\* while its entry remains
NoRetry ==
    [][ \A o \in ops' \ ops :
          o.op = "create" => o.key \notin DOMAIN SE ]_vars

\* the add loop of a later pass has gone over a Google event whose entry is
\* sync_failed, and issued nothing for it
NoRetryWitness ==
    /\ pc = "g2i_del"
    /\ \E k \in DOMAIN pre.synced_events :
         /\ pre.synced_events[k].sync_failed
         /\ pre.synced_events[k].source = "google"
         /\ k \in snapIds
         /\ \A o \in ops : o.key # k

\* the keys in the snapshot of a side, as the pass took it
SnapshotKeys(side) ==
    IF side = "google"
    THEN {g.id : g \in GoogleSnapshot(pre.google, pre.now)}
    ELSE {c.uid : c \in ICloudSnapshot(pre.icloud, pre.now)}

\* C15 (entry lifecycle): an entry that a pass removes has its start inside
\* the active window and its key absent from the snapshot of the side its
\* source names; an entry whose key is in that snapshot is not removed
EntryLifecycle ==
    \A k \in (DOMAIN pre.synced_events) \ (DOMAIN SE) :
        /\ InWindow(pre.synced_events[k].start, pre.now)
        /\ k \notin SnapshotKeys(pre.synced_events[k].source)

\* the keys of the records that no user authored: the engine wrote them
WrittenAtICloud(c) ==
    {e.uid : e \in {x \in c : \A u \in ICloudCatalogue : u.uid # x.uid}}
WrittenAtGoogle(g) ==
    {e.id : e \in {x \in g : \A u \in GoogleCatalogue : u.id # x.id}}

\* C16 (no re-propagation of engine-written records): no pass issues a
\* create at Google for the key of a copy the engine wrote into iCloud, nor a
\* create at iCloud for the key of a copy the engine wrote into Google,
\* whether or not the originating event still exists
NoRePropagation ==
    \A o \in ops :
        o.op = "create" =>
           /\ o.at = "google" =>
                o.key \notin WrittenAtICloud(pre.icloud \cup icloud)
           /\ o.at = "icloud" =>
                o.key \notin WrittenAtGoogle(pre.google \cup google)

--------------------------------------------------------------------------
(* The provenance test on arbitrary identifiers: a Google calendar holding   *)
(* one record, whose id and iCalUID are any identifiers, and the passes      *)
(* that run over it.                                                         *)

\* the identifiers: the non-empty strings over two characters, up to MaxIdLen
ProvChars == {1, 2}
ProvIds == UNION {[1..n -> ProvChars] : n \in 1..MaxIdLen}

ProvRecord(i, u) ==
    [id |-> i, iCalUID |-> u, summary |-> "Standup",
     start |-> Aware(20, 0), end |-> Aware(21, 0)]

InitProv ==
    /\ \E i \in ProvIds, u \in ProvIds \cup {NoUid} : google = {ProvRecord(i, u)}
    /\ icloud = {}
    /\ state = EmptyState
    /\ disk = EmptyState
    /\ now = 0
    /\ pc = "idle"
    /\ snapIds = {}
    /\ res = ZeroRes
    /\ exc = Null
    /\ ret = Null
    /\ notified = "none"
    /\ ops = {}
    /\ done = <<>>
    /\ pre = NoPre
    /\ faulted = {}
    /\ faults = 0
    /\ passes = 0
    /\ userOps = 0
    /\ quietRuns = 0
    /\ cleanRuns = 0
    /\ exitCode = NoExit

NextProv ==
    \/ GetServices
    \/ PropagateGoogleToICloud
    \/ DeleteFromICloud
    \/ PropagateICloudToGoogle
    \/ DeleteFromGoogle
    \/ Finish
    \/ HandleError
    \/ MainSleep

SpecProv == InitProv /\ [][NextProv]_vars

\* the classification as claimed: no iCalUID, or an iCalUID equal to the id
NativeAsClaimed(ev) == ev.iCalUID = NoUid \/ ev.iCalUID = ev.id

\* C17 (provenance rule on the Google side): a Google record with no iCalUID
\* or with an iCalUID equal to its id is Native and is propagated to iCloud;
\* one whose iCalUID is another identifier is Foreign and skipped: no create
\* and no entry for it, whatever the two identifiers are
ProvenanceRule ==
    (pc = "g2i_del" /\ faulted = {} /\ pre.synced_events = EmptyDict
                    /\ pre.icloud = {})
    => \A g \in GoogleSnapshot(pre.google, pre.now) :
          /\ NativeAsClaimed(g) =>
                \E o \in ops : /\ o.op = "create" /\ o.at = "icloud"
                               /\ o.key = g.id
          /\ ~NativeAsClaimed(g) =>
                /\ \A o \in ops : o.key # g.id
                /\ g.id \notin DOMAIN SE

\* the entries whose source record exists at its originating side and is
\* not returned by the snapshot of that side: it lies outside the horizon
MovedOut ==
    {k \in DOMAIN pre.synced_events :
        /\ k \notin SnapshotKeys(pre.synced_events[k].source)
        /\ IF pre.synced_events[k].source = "google"
           THEN \E g \in pre.google : g.id = k
           ELSE \E c \in pre.icloud : c.uid = k}

\* C18 (a moved event is not taken for a deleted one): when a tracked source
\* record still exists at its originating side but lies outside the scan
\* horizon, the pass issues no delete for its key and keeps its entry
MovedIsNotDeleted ==
    \A k \in MovedOut :
        /\ k \in DOMAIN SE
        /\ \A o \in ops : ~(o.op = "delete" /\ o.key = k)

\* the key under which a Google record is known at the other side
KeyAtGoogle(g) == IF Native(g) THEN g.id ELSE g.iCalUID

\* both calendars agree: every event of the active window has a record with
\* its key at the other side, and every copy the engine wrote still has its
\* originating event
Consistent ==
    /\ \A g \in google :
         InWindow(g.start, now) => \E c \in icloud : c.uid = KeyAtGoogle(g)
    /\ \A c \in icloud :
         InWindow(c.start, now) =>
            \E g \in google : g.id = c.uid \/ g.iCalUID = c.uid
    /\ \A g \in google :
         g.id \in WrittenAtGoogle(google) =>
            \E c \in icloud : c.uid = g.iCalUID
    /\ \A c \in icloud :
         c.uid \in WrittenAtICloud(icloud) => \E g \in google : g.id = c.uid

\* C19 (convergence): once the users have stopped changing the calendars and
\* no operation fails, the passes bring both calendars to agreement: after
\* the second such pass the calendars are consistent
Convergence ==
    (pc = "returned" /\ cleanRuns = 2) => Consistent

\* C20 (persistence discipline): when a pass has ended, completed or
\* aborted, the contents of the state file equal the state in memory, the
\* entries recorded for the creates of that pass included
PersistedAfterPass ==
    pc = "returned" => disk = state

\* the deletes of a side that failed with an error other than not-found:
\* the record they aimed at is still there
FailedDeletesAt(side) ==
    {o \in ops : /\ o.op = "delete" /\ o.at = side /\ ~o.ok
                 /\ IF side = "icloud"
                    THEN ICloudMatches(icloud, o.key, now) # {}
                    ELSE GoogleTarget(google, o.key) # {}}

\* C21 (per-event delete failures are counted and recorded): a delete that
\* fails with an error other than not-found leaves its entry in
\* synced_events with the failure recorded on it, and the errors count of
\* the direction includes it
DeleteFailuresCounted ==
    /\ pc = "i2g_add" =>
         /\ \A o \in FailedDeletesAt("icloud") :
               /\ o.key \in DOMAIN SE
               /\ SE[o.key].sync_failed
         /\ res.gErrors = Cardinality(CreatesAt("icloud", FALSE))
                          + Cardinality(FailedDeletesAt("icloud"))
    /\ pc = "finish" =>
         /\ \A o \in FailedDeletesAt("google") :
               /\ o.key \in DOMAIN SE
               /\ SE[o.key].sync_failed
         /\ res.iErrors = Cardinality(CreatesAt("google", FALSE))
                          + Cardinality(FailedDeletesAt("google"))

--------------------------------------------------------------------------
(* Malformed records: calendars that hold, besides the events of the         *)
(* catalogues, a Google record without 'start', a VEVENT without DTEND and   *)
(* a VEVENT that cannot be parsed, and the pass that runs over them.         *)

MalformedAtGoogle ==
    { [id |-> <<4>>, iCalUID |-> <<4, AtGoogle>>, summary |-> "Broken",
       start |-> Missing(8), end |-> Aware(9, 0)] }

MalformedAtICloud ==
    { [uid |-> <<8>>, summary |-> "Broken",
       start |-> Aware(8, 0), end |-> Missing(9)],
      [uid |-> <<5>>, summary |-> "Broken",
       start |-> Garbled(8), end |-> Garbled(9)] }

UpTo(S, n) == {T \in SUBSET S : Cardinality(T) <= n}

\* one pass is left to run, with at most one injected failure
InitMal ==
    /\ google \in UpTo(GoogleCatalogue \cup MalformedAtGoogle, MaxRecords)
    /\ icloud \in UpTo(ICloudCatalogue \cup MalformedAtICloud, MaxRecords)
    /\ state = EmptyState
    /\ disk = EmptyState
    /\ now = 0
    /\ pc = "idle"
    /\ snapIds = {}
    /\ res = ZeroRes
    /\ exc = Null
    /\ ret = Null
    /\ notified = "none"
    /\ ops = {}
    /\ done = <<>>
    /\ pre = NoPre
    /\ faulted = {}
    /\ faults = MaxFaults - 1
    /\ passes = MaxPasses - 1
    /\ userOps = 0
    /\ quietRuns = 0
    /\ cleanRuns = 0
    /\ exitCode = NoExit

NextMal ==
    \/ GetServices
    \/ PropagateGoogleToICloud
    \/ DeleteFromICloud
    \/ PropagateICloudToGoogle
    \/ DeleteFromGoogle
    \/ Finish
    \/ HandleError
    \/ MainSleep

SpecMal == InitMal /\ [][NextMal]_vars

WellFormed(r) ==
    r.start.kind \notin {"missing", "garbled"} /\ r.end.kind # "missing"

\* C22 (malformed records are isolated): a malformed record of the Google or
\* of the iCloud snapshot does not abort the pass, and every well-formed
\* record of the snapshot is still processed: when nothing else fails, the
\* pass does not end in the except clause, each untracked native Google
\* record has its entry after the Google-to-iCloud add loop and each iCloud
\* record has its entry after the iCloud-to-Google add loop
MalformedIsolated ==
    faulted = {} =>
        /\ pc # "except"
        /\ pc = "g2i_del" =>
             \A e \in UntrackedAtGoogle : WellFormed(e) => e.id \in DOMAIN SE
        /\ pc = "i2g_del" =>
             \A c \in ICloudSnapshot(pre.icloud, pre.now) :
                WellFormed(c) => c.uid \in DOMAIN SE

\* C23 (failures never stop the service): whatever fails in a pass, run_sync
\* returns True or False and does not raise, so that main goes on to sleep
\* and to the next pass: the process never ends on an exception, and a pass
\* that has ended has returned a boolean
NeverStops ==
    /\ pc # "crashed"
    /\ pc = "returned" => ret \in BOOLEAN

--------------------------------------------------------------------------
(* sync_once.py: a process that constructs CalendarSync, runs one pass and   *)
(* exits.                                                                    *)

\* one pass is left to run; the state file is absent or holds an earlier
\* error
InitOnce ==
    /\ google \in UpTo(GoogleCatalogue, MaxRecords)
    /\ icloud \in UpTo(ICloudCatalogue, MaxRecords)
    /\ \E e \in {NoError, [elapsed |-> 1, text |-> "timeout"]} :
         state = [EmptyState EXCEPT !.last_error = e]
    /\ disk = state
    /\ now = 0
    /\ pc = "idle"
    /\ snapIds = {}
    /\ res = ZeroRes
    /\ exc = Null
    /\ ret = Null
    /\ notified = "none"
    /\ ops = {}
    /\ done = <<>>
    /\ pre = NoPre
    /\ faulted = {}
    /\ faults = 0
    /\ passes = MaxPasses - 1
    /\ userOps = 0
    /\ quietRuns = 0
    /\ cleanRuns = 0
    /\ exitCode = NoExit

\* as SysExit, with sys.exit(0) whatever run_sync returned
SysExitAlwaysZero ==
    /\ pc = "returned"
    /\ pc' = "exited"
    /\ exitCode' = 0
    /\ UNCHANGED <<google, icloud, state, disk, now, snapIds, res, exc, ret,
                   notified, ops, done, pre, faulted, faults, passes, userOps,
                   quietRuns, cleanRuns>>

\* sys.exit(0 if success else 1)
SysExit ==
    /\ pc = "returned"
    /\ pc' = "exited"
    /\ exitCode' = IF ret = TRUE THEN 0 ELSE 1
    /\ UNCHANGED <<google, icloud, state, disk, now, snapIds, res, exc, ret,
                   notified, ops, done, pre, faulted, faults, passes, userOps,
                   quietRuns, cleanRuns>>

\* sys.exit(1) inside run_sync, or an exception nothing catches: the
\* interpreter ends with status 1
Die ==
    /\ pc = "crashed"
    /\ exitCode = NoExit
    /\ exitCode' = 1
    /\ UNCHANGED <<google, icloud, state, disk, now, pc, snapIds, res, exc, ret,
                   notified, ops, done, pre, faulted, faults, passes, userOps,
                   quietRuns, cleanRuns>>

NextOnce ==
    \/ GetServices
    \/ PropagateGoogleToICloud
    \/ DeleteFromICloud
    \/ PropagateICloudToGoogle
    \/ DeleteFromGoogle
    \/ Finish
    \/ HandleError
    \/ SysExit
    \/ Die

SpecOnce == InitOnce /\ [][NextOnce]_vars

\* C24 (exit status of sync_once): the process runs one pass and exits with
\* status 0 when run_sync returned True and with status 1 otherwise; a pass
\* that went through all four stages and saved the state exits with 0 even if
\* creates failed in it, and a pass that was aborted exits with 1
ExitStatus ==
    /\ pc = "exited" =>
         /\ passes = MaxPasses
         /\ exitCode \in {0, 1}
         /\ exitCode = 0 <=> ret = TRUE
         /\ (done = StagesAsRun /\ "state_write" \notin faulted)
               => exitCode = 0
         /\ done # StagesAsRun => exitCode = 1
    /\ (pc = "crashed" /\ exitCode # NoExit) => exitCode = 1

\* the process has exited with 0 after a pass in which a create failed
ExitStatusWitness ==
    /\ pc = "exited"
    /\ exitCode = 0
    /\ res.gErrors + res.iErrors > 0


--------------------------------------------------------------------------
\* C25 (source labelling): every entry that the Google-to-iCloud
\* propagation stage inserts (for a native Google record: by a successful
\* create, a failed create or the already-exists path) has source 'google',
\* and every entry that the iCloud-to-Google propagation stage inserts has
\* source 'icloud'
SourceLabelling ==
    [][ /\ pc = "g2i_add" =>
             \A k \in DOMAIN SE' \ DOMAIN SE : SE'[k].source = "google"
        /\ pc = "i2g_add" =>
             \A k \in DOMAIN SE' \ DOMAIN SE : SE'[k].source = "icloud" ]_vars


--------------------------------------------------------------------------
\* C26 (last_sync and last_error bookkeeping): a pass that completes all
\* stages ends with last_sync equal to the current time and last_error
\* null; a pass that aborts leaves last_sync as it was when the pass began;
\* and a failing pass that begins with last_error null, as it is after a
\* completed pass, sends an error notification
Bookkeeping ==
    /\ (pc = "returned" /\ ret = TRUE) =>
         /\ state.last_sync = now
         /\ state.last_error = NoError
    /\ (pc = "returned" /\ ret = FALSE) =>
         /\ state.last_sync = pre.last_sync
         /\ pre.last_error = NoError => notified = "error"

==========================================================================
